---- MODULE Spec2Model ----
(***************************************************************************)
(* Model of backend/pixeldrain/api_client.go: the error mapper, the        *)
(* node/path conversions and the remote operation set of the pixeldrain    *)
(* backend.  Strings are sequences of one-character strings, so that       *)
(* prefix stripping, concatenation and percent-escaping are computed on    *)
(* characters.  The remote service and the REST transport are the          *)
(* environment; they act on the request this layer actually sends.         *)
(***************************************************************************)
EXTENDS Integers, Sequences, FiniteSets, TLC

VARIABLES
  pathPrefix,  \* f.pathPrefix, fixed at construction
  remote,      \* the tree the service holds
  before,      \* the tree before the last operation
  sent,        \* the requests the last operation handed to the REST client
  ret,         \* the last operation: its arguments and what it returned
  body,        \* the response body of the last operation: none, open, closed
  closes,      \* how often the last operation closed that body
  rawFsp,      \* the FilesystemPath as stat returned it
  given,       \* the FilesystemPath as the last pathToObject call received it
  fsp,         \* the caller's FilesystemPath; pathToObject strips it in place
  obj,         \* the handle built from fsp
  strips,      \* how often fsp was given to pathToObject
  conv,        \* the last single-node conversion
  mkRun,       \* consecutive successful mkdir calls on one directory
  panicked     \* a run-time panic ended the program

vars == <<pathPrefix, remote, before, sent, ret, body, closes, rawFsp, given, fsp,
          obj, strips, conv, mkRun, panicked>>

----------------------------------------------------------------------------
(* Bounds of the model *)

\* deepest node of the remote tree, in path segments
MaxDepth == 2
\* how often a caller may hand the same FilesystemPath to pathToObject
MaxStrips == 2

\* names of nodes, in the order a listing reports them
Names == <<"u", "a">>

\* configured path prefixes (the scope roots)
Prefixes == { <<"/", "u">>, <<"/", "u", "/", "u">> }

----------------------------------------------------------------------------
(* Strings *)

HasPrefix(s, p) == Len(p) <= Len(s) /\ SubSeq(s, 1, Len(p)) = p

TrimPrefixTwice(s, p) ==
  LET once == IF HasPrefix(s, p) THEN SubSeq(s, Len(p) + 1, Len(s)) ELSE s
  IN  IF HasPrefix(once, p) THEN SubSeq(once, Len(p) + 1, Len(once)) ELSE once

TrimPrefixAlways(s, p) == SubSeq(s, Len(p) + 1, Len(s))

\* strings.TrimPrefix
TrimPrefix(s, p) ==
  IF HasPrefix(s, p) THEN SubSeq(s, Len(p) + 1, Len(s)) ELSE s

Unreserved == {"u", "a", "b", "c", "-", "_", ".", "~"}

\* the escape of one character in a path segment: '/' and every other
\* reserved character becomes %XX
EscapeChar(c) ==
  CASE c \in Unreserved -> <<c>>
    [] c = "/" -> <<"%", "2", "F">>
    [] c = "%" -> <<"%", "2", "5">>
    [] c = " " -> <<"%", "2", "0">>
    [] OTHER   -> <<"%", "3", "F">>

RECURSIVE PathEscape(_)
\* url.PathEscape, applied to the whole path as one unit
PathEscape(s) ==
  IF s = <<>> THEN <<>> ELSE EscapeChar(Head(s)) \o PathEscape(Tail(s))

UnescapeTriple(t) ==
  CASE t = <<"%", "2", "F">> -> "/"
    [] t = <<"%", "2", "5">> -> "%"
    [] t = <<"%", "2", "0">> -> " "
    [] OTHER -> "?"

RECURSIVE PathUnescape(_)
\* the service's decoding of the request path
PathUnescape(s) ==
  IF s = <<>> THEN <<>>
  ELSE IF Head(s) = "%" /\ Len(s) >= 3
       THEN <<UnescapeTriple(SubSeq(s, 1, 3))>> \o PathUnescape(SubSeq(s, 4, Len(s)))
       ELSE <<Head(s)>> \o PathUnescape(Tail(s))

\* a literal of the source as a string value
Str(lit) == <<lit>>

----------------------------------------------------------------------------
(* Error mapper *)

Err(k) == [kind |-> k, StatusCode |-> "", Message |-> ""]

NoError == Err("nil")
errNotFound == Err("NotFound")
errExists == Err("AlreadyExists")
errAuthenticationFailed == Err("AuthenticationFailed")
ErrorDirectoryNotEmpty == Err("DirectoryNotEmpty")
ErrorPermissionDenied == Err("PermissionDenied")
DecodeFailure == Err("DecodeFailure")
TransportFailure == Err("TransportFailure")

\* the ApiError value
ApiError(value, message) ==
  [kind |-> "ApiError", StatusCode |-> value, Message |-> message]

apiErrorHandlerSwapped(b) ==
  IF ~b.decodes THEN DecodeFailure
  ELSE IF b.value = "path_not_found" THEN errNotFound
  ELSE IF b.value = "directory_not_empty" THEN ErrorDirectoryNotEmpty
  ELSE IF b.value = "node_already_exists" THEN errExists
  ELSE IF b.value = "authentication_failed" THEN ErrorPermissionDenied
  ELSE IF b.value = "permission_denied" THEN ErrorPermissionDenied
  ELSE ApiError(b.value, b.message)

\* apiErrorHandler: b is the error body, decodable or not
apiErrorHandler(b) ==
  IF ~b.decodes THEN DecodeFailure
  ELSE IF b.value = "path_not_found" THEN errNotFound
  ELSE IF b.value = "directory_not_empty" THEN ErrorDirectoryNotEmpty
  ELSE IF b.value = "node_already_exists" THEN errExists
  ELSE IF b.value = "authentication_failed" THEN errAuthenticationFailed
  ELSE IF b.value = "permission_denied" THEN ErrorPermissionDenied
  ELSE ApiError(b.value, b.message)

----------------------------------------------------------------------------
(* Data model *)

Depth(p) == Len(p) \div 2
Parent(p) == SubSeq(p, 1, Len(p) - 2)
Seg(n) == <<"/", n>>

RECURSIVE PathsOfDepth(_)
PathsOfDepth(d) ==
  IF d = 0 THEN { <<>> }
  ELSE { p \o Seg(Names[i]) : p \in PathsOfDepth(d - 1), i \in 1..Len(Names) }

\* every node path the remote tree can hold
AllPaths == UNION { PathsOfDepth(d) : d \in 1..MaxDepth }

\* FilesystemNode: the discriminator, the absolute path and the name
FilesystemNode(type, path) ==
  [Type |-> type, Path |-> path, Name |-> <<path[Len(path)]>>]

\* the zero FilesystemNode
ZeroNode == [Type |-> "", Path |-> <<>>, Name |-> <<>>]

\* FilesystemPath; BaseIndex counts from 0 as in the source
FilesystemPath(path, baseIndex, children) ==
  [Path |-> path, BaseIndex |-> baseIndex, Children |-> children]

\* the zero FilesystemPath, what a named result holds when nothing was decoded
ZeroFsp == FilesystemPath(<<>>, 0, <<>>)

\* no handle
NoObject == [set |-> FALSE, base |-> ZeroNode, path |-> <<>>, children |-> <<>>]

----------------------------------------------------------------------------
(* The remote service: a tree of nodes, a function from node path to type. *)
(* The root <<>> always exists and is a directory.                         *)

EmptyTree == [q \in {} |-> "dir"]

IsDir(t, p) == p = <<>> \/ (p \in DOMAIN t /\ t[p] = "dir")
ProperAncestors(p) == { SubSeq(p, 1, 2 * i) : i \in 1..(Depth(p) - 1) }
ChildrenOf(t, p) == { q \in DOMAIN t : Len(q) = Len(p) + 2 /\ HasPrefix(q, p) }
Descendants(t, p) == { q \in DOMAIN t : HasPrefix(q, p) }

SvcResult(code, t, node, f) == [code |-> code, tree |-> t, node |-> node, fsp |-> f]
SvcError(code, t) == SvcResult(code, t, ZeroNode, ZeroFsp)
SvcOk(t) == SvcResult("", t, ZeroNode, ZeroFsp)

\* the children of p in listing order
Listing(t, p) ==
  LET cand == [i \in 1..Len(Names) |-> p \o Seg(Names[i])]
      sel  == SelectSeq(cand, LAMBDA q : q \in DOMAIN t)
  IN  [i \in 1..Len(sel) |-> FilesystemNode(t[sel[i]], sel[i])]

\* metadata query: every ancestor down to the queried node, the index of the
\* queried node, and its children
SvcStat(t, p) ==
  IF p \in DOMAIN t
  THEN SvcResult("", t, ZeroNode,
         FilesystemPath(
           [i \in 1..Depth(p) |->
              FilesystemNode(t[SubSeq(p, 1, 2 * i)], SubSeq(p, 1, 2 * i))],
           Depth(p) - 1,
           Listing(t, p)))
  ELSE SvcError("path_not_found", t)

SvcRead(t, p) ==
  IF p \in DOMAIN t /\ t[p] = "file" THEN SvcOk(t) ELSE SvcError("path_not_found", t)

\* write content; with make_parents the missing ancestors are created
SvcPut(t, p, makeParents) ==
  IF p \notin AllPaths THEN SvcError("path_not_found", t)
  ELSE IF IsDir(t, p) THEN SvcError("node_already_exists", t)
  ELSE IF \E q \in ProperAncestors(p) : q \in DOMAIN t /\ t[q] = "file"
       THEN SvcError("node_already_exists", t)
  ELSE IF ~makeParents /\ ~IsDir(t, Parent(p)) THEN SvcError("path_not_found", t)
  ELSE LET new == [q \in DOMAIN t \cup ProperAncestors(p) \cup {p} |->
                     IF q = p THEN "file" ELSE IF q \in DOMAIN t THEN t[q] ELSE "dir"]
       IN  SvcResult("", new, FilesystemNode("file", p), ZeroFsp)

SvcUpdate(t, p) ==
  IF p \in DOMAIN t THEN SvcResult("", t, FilesystemNode(t[p], p), ZeroFsp)
  ELSE SvcError("path_not_found", t)

\* mkdirall: creates the full ancestor chain, no error when it exists
SvcMkdirall(t, p) ==
  LET chain == ProperAncestors(p) \cup {p}
  IN  IF p \notin AllPaths THEN SvcError("path_not_found", t)
      ELSE IF \E q \in chain : q \in DOMAIN t /\ t[q] = "file"
           THEN SvcError("node_already_exists", t)
      ELSE SvcOk([q \in DOMAIN t \cup chain |-> IF q \in DOMAIN t THEN t[q] ELSE "dir"])

SvcRename(t, from, target) ==
  LET moved == Descendants(t, from)
      New(q) == target \o SubSeq(q, Len(from) + 1, Len(q))
  IN  IF from \notin DOMAIN t THEN SvcError("path_not_found", t)
      ELSE IF target \notin AllPaths THEN SvcError("path_not_found", t)
      ELSE IF target \in DOMAIN t THEN SvcError("node_already_exists", t)
      ELSE IF ~IsDir(t, Parent(target)) THEN SvcError("path_not_found", t)
      ELSE IF HasPrefix(target, from) THEN SvcError("invalid_target", t)
      ELSE IF \E q \in moved : New(q) \notin AllPaths THEN SvcError("path_too_long", t)
      ELSE SvcOk([q \in (DOMAIN t \ moved) \cup { New(m) : m \in moved } |->
                    IF q \in DOMAIN t \ moved THEN t[q]
                    ELSE t[CHOOSE m \in moved : New(m) = q]])

SvcDelete(t, p, recursive) ==
  IF p \notin DOMAIN t THEN SvcError("path_not_found", t)
  ELSE IF ChildrenOf(t, p) # {} /\ ~recursive THEN SvcError("directory_not_empty", t)
  ELSE SvcOk([q \in DOMAIN t \ Descendants(t, p) |-> t[q]])

HasParam(values, key, val) == key \in DOMAIN values /\ values[key] = <<val>>

\* the service's answer to one request
Service(req, t) ==
  LET p == PathUnescape(req.Path)
      m == req.MultipartParams
  IN  IF req.Root = "user" THEN SvcOk(t)
      ELSE IF req.Method = "GET"
           THEN IF "stat" \in DOMAIN req.Parameters THEN SvcStat(t, p) ELSE SvcRead(t, p)
      ELSE IF req.Method = "PUT"
           THEN SvcPut(t, p, HasParam(req.Parameters, "make_parents", Str("true")))
      ELSE IF req.Method = "DELETE"
           THEN SvcDelete(t, p, HasParam(req.Parameters, "recursive", Str("true")))
      ELSE IF req.Method = "POST" /\ HasParam(m, "action", Str("update"))
           THEN SvcUpdate(t, p)
      ELSE IF req.Method = "POST" /\ HasParam(m, "action", Str("mkdirall"))
           THEN SvcMkdirall(t, p)
      ELSE IF req.Method = "POST" /\ HasParam(m, "action", Str("rename"))
                /\ "target" \in DOMAIN m /\ Len(m["target"]) = 1
           THEN SvcRename(t, p, m["target"][1])
      ELSE SvcError("invalid_action", t)

----------------------------------------------------------------------------
(* The REST client: one exchange, with the faults of the transport and of  *)
(* the service in front of the tree.                                       *)

Faults == {"none", "noResp", "respNoBody", "auth", "perm", "internal", "malformed"}
Messages == {"first message", "second message"}

\* the faults that leave no decodable error body carry no message
Silent == {"noResp", "respNoBody", "malformed"}

\* what the environment decides in one exchange: the fault, and the message of
\* the error body if there is one
FaultChoices == ((Faults \ Silent) \X Messages) \cup (Silent \X {""})

ErrorBody(value, message) == [decodes |-> TRUE, value |-> value, message |-> message]
MalformedBody == [decodes |-> FALSE, value |-> "<html>", message |-> ""]

NoBody == [decodes |-> FALSE, value |-> "", message |-> ""]

Exchanged(resp, b, err, t, node, f, eb) ==
  [resp |-> resp, body |-> b, err |-> err, tree |-> t, node |-> node, fsp |-> f,
   errBody |-> eb]

\* no response reached the error handler
Failed(resp, b, err, t) == Exchanged(resp, b, err, t, ZeroNode, ZeroFsp, NoBody)

\* a response with a non-success status: the error handler reads its body
Rejected(eb, t) == Exchanged(TRUE, "open", apiErrorHandler(eb), t, ZeroNode, ZeroFsp, eb)

\* srv.Call / srv.CallJSON: a non-success status goes through apiErrorHandler,
\* a success is decoded into the result
CallJSON(req, t, fault, msg) ==
  LET r == Service(req, t)
  IN  CASE fault = "noResp"     -> Failed(FALSE, "none", TransportFailure, t)
        [] fault = "respNoBody" -> Failed(TRUE, "none", TransportFailure, t)
        [] fault = "auth"       -> Rejected(ErrorBody("authentication_failed", msg), t)
        [] fault = "perm"       -> Rejected(ErrorBody("permission_denied", msg), t)
        [] fault = "internal"   -> Rejected(ErrorBody("internal_error", msg), t)
        [] fault = "malformed"  -> Rejected(MalformedBody, t)
        [] OTHER ->
             IF r.code = ""
             THEN Exchanged(TRUE, "open", NoError, r.tree, r.node, r.fsp, NoBody)
             ELSE Rejected(ErrorBody(r.code, msg), t)

----------------------------------------------------------------------------
(* Timestamps: an instant within the first minute of the epoch, in UTC.    *)

Time(sec, nsec) == [sec |-> sec, nsec |-> nsec]

Times == { Time(5, 0), Time(5, 500000000), Time(59, 120000001) }

Digits == <<"0", "1", "2", "3", "4", "5", "6", "7", "8", "9">>
Digit(d) == Digits[d + 1]
DigitValue(c) == (CHOOSE i \in 1..10 : Digits[i] = c) - 1

RECURSIVE Pow10(_)
Pow10(n) == IF n = 0 THEN 1 ELSE 10 * Pow10(n - 1)

RECURSIVE TrimZeros(_)
TrimZeros(ds) ==
  IF ds # <<>> /\ ds[Len(ds)] = "0" THEN TrimZeros(SubSeq(ds, 1, Len(ds) - 1)) ELSE ds

DatePart == "1970-01-01T00:00:"

FormatRFC3339(t) ==
  <<DatePart, Digit(t.sec \div 10), Digit(t.sec % 10), "Z">>

\* Time.Format(time.RFC3339Nano): the fraction is printed without its
\* trailing zeros and left out when it is zero
FormatRFC3339Nano(t) ==
  LET nine == [i \in 1..9 |-> Digit((t.nsec \div Pow10(9 - i)) % 10)]
      frac == IF t.nsec = 0 THEN <<>> ELSE <<".">> \o TrimZeros(nine)
  IN  <<DatePart, Digit(t.sec \div 10), Digit(t.sec % 10)>> \o frac \o <<"Z">>

----------------------------------------------------------------------------
(* Requests of the operation set *)

NoValues == [k \in {} |-> <<>>]

Opts(method, root, path, params, multipart, hasBody, noResponse) ==
  [Method |-> method, Root |-> root, Path |-> path, Parameters |-> params,
   MultipartParams |-> multipart, HasBody |-> hasBody, NoResponse |-> noResponse]

putOpts(path) ==
  Opts("PUT", "fs", PathEscape(path), "make_parents" :> <<Str("true")>>, NoValues,
       TRUE, FALSE)

readOpts(path) == Opts("GET", "fs", PathEscape(path), NoValues, NoValues, FALSE, FALSE)

statOpts(path) ==
  Opts("GET", "fs", PathEscape(path), "stat" :> << <<>> >>, NoValues, FALSE, FALSE)

updateParamsRFC3339(fields) ==
  LET action == "action" :> <<Str("update")>>
      withCreated ==
        IF "created" \in DOMAIN fields
        THEN ("created" :> <<FormatRFC3339(fields["created"])>>) @@ action
        ELSE action
  IN  IF "modified" \in DOMAIN fields
      THEN ("modified" :> <<FormatRFC3339(fields["modified"])>>) @@ withCreated
      ELSE withCreated

\* the form parameters of update
updateParams(fields) ==
  LET action == "action" :> <<Str("update")>>
      withCreated ==
        IF "created" \in DOMAIN fields
        THEN ("created" :> <<FormatRFC3339Nano(fields["created"])>>) @@ action
        ELSE action
  IN  IF "modified" \in DOMAIN fields
      THEN ("modified" :> <<FormatRFC3339Nano(fields["modified"])>>) @@ withCreated
      ELSE withCreated

updateOpts(path, fields) ==
  Opts("POST", "fs", PathEscape(path), NoValues, updateParams(fields), FALSE, FALSE)

mkdirOptsSingle(dir) ==
  Opts("POST", "fs", PathEscape(dir), NoValues, "action" :> <<Str("mkdir")>>,
       FALSE, TRUE)

mkdirOpts(dir) ==
  Opts("POST", "fs", PathEscape(dir), NoValues, "action" :> <<Str("mkdirall")>>,
       FALSE, TRUE)

renameOptsBareTarget(prefix, from, to) ==
  Opts("POST", "fs", PathEscape(from), NoValues,
       ("action" :> <<Str("rename")>>) @@ ("target" :> <<to>>), FALSE, TRUE)

renameOpts(prefix, from, to) ==
  Opts("POST", "fs", PathEscape(from), NoValues,
       ("action" :> <<Str("rename")>>) @@ ("target" :> <<prefix \o to>>), FALSE, TRUE)

deleteParamsNever(recursive) == NoValues

\* the query parameters of delete
deleteParams(recursive) ==
  IF recursive THEN "recursive" :> <<Str("true")>> ELSE NoValues

deleteOpts(path, recursive) ==
  Opts("DELETE", "fs", PathEscape(path), deleteParams(recursive), NoValues, FALSE, TRUE)

userInfoOpts == Opts("GET", "user", <<>>, NoValues, NoValues, FALSE, FALSE)

statReturnZero(x) == [x EXCEPT !.fsp = ZeroFsp]

\* stat's named results: fsp is what CallJSON decoded into it, the zero value
\* when nothing was decoded, and it is returned next to err either way
statReturn(x) == x

----------------------------------------------------------------------------
(* Response bodies *)

Closing(b, n, stream, panic) == [body |-> b, closes |-> n, stream |-> stream, panic |-> panic]

\* if resp != nil && resp.Body != nil { resp.Body.Close() }
closeBody(x) ==
  IF x.resp /\ x.body # "none"
  THEN Closing("closed", 1, FALSE, FALSE)
  ELSE Closing(x.body, 0, FALSE, FALSE)

readBodyLeak(x) ==
  IF x.err # NoError THEN Closing(x.body, 0, FALSE, FALSE)
  ELSE Closing(x.body, 0, x.body # "none", FALSE)

\* the tail of read: close on error, hand the open body out on success
readBody(x) ==
  IF x.err # NoError
  THEN closeBody(x)
  ELSE IF ~x.resp THEN Closing(x.body, 0, FALSE, TRUE)
  ELSE Closing(x.body, 0, x.body # "none", FALSE)

----------------------------------------------------------------------------
(* Conversions *)

StripNodes(nodes, prefix) ==
  [i \in 1..Len(nodes) |-> [nodes[i] EXCEPT !.Path = TrimPrefix(@, prefix)]]

Converted(f, o, panic) == [fsp |-> f, obj |-> o, panic |-> panic]

pathToObjectSkipChildren(f, prefix) ==
  LET path == StripNodes(f.Path, prefix)
      g == FilesystemPath(path, f.BaseIndex, f.Children)
  IN  IF f.BaseIndex >= 0 /\ f.BaseIndex < Len(path)
      THEN Converted(g, [set |-> TRUE, base |-> path[f.BaseIndex + 1],
                         path |-> path, children |-> f.Children], FALSE)
      ELSE Converted(g, NoObject, TRUE)

\* pathToObject: the nodes are stripped in place, so the caller's value and
\* the handle share them; an index outside the path sequence panics
pathToObject(f, prefix) ==
  LET path == StripNodes(f.Path, prefix)
      children == StripNodes(f.Children, prefix)
      g == FilesystemPath(path, f.BaseIndex, children)
  IN  IF f.BaseIndex >= 0 /\ f.BaseIndex < Len(path)
      THEN Converted(g, [set |-> TRUE, base |-> path[f.BaseIndex + 1],
                         path |-> path, children |-> children], FALSE)
      ELSE Converted(g, NoObject, TRUE)

\* nodeToObject: a handle with no ancestor sequence and no children
nodeToObject(node, prefix) ==
  [set |-> TRUE, base |-> [node EXCEPT !.Path = TrimPrefix(@, prefix)],
   path |-> <<>>, children |-> <<>>]

nodeToDirectoryAlways(node, prefix) == [remote |-> TrimPrefixAlways(node.Path, prefix)]

\* nodeToDirectory: the directory entry's remote path
nodeToDirectory(node, prefix) == [remote |-> TrimPrefix(node.Path, prefix)]

----------------------------------------------------------------------------
(* State machine *)

NoFields == [k \in {} |-> Time(0, 0)]

FieldKeys == {"created", "modified", "mode"}

\* the field mappings a caller passes to update
FieldMaps == UNION { [ks -> Times] : ks \in SUBSET FieldKeys }

Returned(op, path, to, recursive, fields, fault, x, c) ==
  [op |-> op, path |-> path, to |-> to, recursive |-> recursive, fields |-> fields,
   fault |-> fault, resp |-> x.resp, opened |-> x.body = "open", errBody |-> x.errBody,
   err |-> x.err, node |-> x.node, stream |-> c.stream, panic |-> c.panic]

NoCall ==
  Returned("none", <<>>, <<>>, FALSE, NoFields, "none",
           Failed(FALSE, "none", NoError, EmptyTree), Closing("none", 0, FALSE, FALSE))

NoConv == [fn |-> "none", node |-> ZeroNode, path |-> <<>>]

NoRun == [n |-> 0, dir |-> <<>>, before |-> EmptyTree, after |-> EmptyTree]

\* a mkdir that reached the tree and was answered
Undisturbed(r) == r.op = "mkdir" /\ r.fault = "none"

\* mkRun after the call r that found the tree t and left the tree u: 1 after
\* a successful mkdir, 2 after a mkdir on the same directory right after it
NextRun(r, t, u) ==
  IF Undisturbed(r) /\ mkRun.n = 1 /\ mkRun.dir = r.path
  THEN [mkRun EXCEPT !.n = 2]
  ELSE IF Undisturbed(r) /\ r.err = NoError
       THEN [n |-> 1, dir |-> r.path, before |-> t, after |-> u]
       ELSE NoRun

\* the paths the adapter passes in: the prefix is already prepended
InScope == { p \in AllPaths : HasPrefix(p, pathPrefix) }

\* the destinations the adapter passes to rename: relative to the scope
Relative == { TrimPrefix(p, pathPrefix) : p \in InScope }

Init ==
  /\ pathPrefix \in Prefixes
  /\ remote = EmptyTree
  /\ before = EmptyTree
  /\ sent = <<>>
  /\ ret = NoCall
  /\ body = "none"
  /\ closes = 0
  /\ rawFsp = ZeroFsp
  /\ given = ZeroFsp
  /\ fsp = ZeroFsp
  /\ obj = NoObject
  /\ strips = 0
  /\ conv = NoConv
  /\ mkRun = NoRun
  /\ panicked = FALSE

\* no operation is under way and the caller holds no result
Idle == ret.op = "none" /\ ~panicked

\* what every operation of the operation set leaves behind
Finish(req, x, c, r) ==
  /\ sent' = <<req>>
  /\ before' = remote
  /\ remote' = x.tree
  /\ ret' = r
  /\ body' = c.body
  /\ closes' = c.closes
  /\ panicked' = c.panic
  /\ rawFsp' = x.fsp
  /\ given' = ZeroFsp
  /\ fsp' = x.fsp
  /\ obj' = NoObject
  /\ strips' = 0
  /\ conv' = NoConv
  /\ mkRun' = NextRun(r, remote, x.tree)
  /\ UNCHANGED pathPrefix

put ==
  /\ Idle
  /\ \E path \in InScope, fm \in FaultChoices :
       LET fault == fm[1]
           msg == fm[2]
           req == putOpts(path)
           x == CallJSON(req, remote, fault, msg)
           c == closeBody(x)
       IN  Finish(req, x, c, Returned("put", path, <<>>, FALSE, NoFields, fault, x, c))

read ==
  /\ Idle
  /\ \E path \in InScope, fm \in FaultChoices :
       LET fault == fm[1]
           msg == fm[2]
           req == readOpts(path)
           x == CallJSON(req, remote, fault, msg)
           c == readBody(x)
       IN  Finish(req, x, c, Returned("read", path, <<>>, FALSE, NoFields, fault, x, c))

stat ==
  /\ Idle
  /\ \E path \in InScope, fm \in FaultChoices :
       LET fault == fm[1]
           msg == fm[2]
           req == statOpts(path)
           x == statReturn(CallJSON(req, remote, fault, msg))
           c == closeBody(x)
       IN  Finish(req, x, c, Returned("stat", path, <<>>, FALSE, NoFields, fault, x, c))

update ==
  /\ Idle
  /\ \E path \in InScope, fields \in FieldMaps, fm \in FaultChoices :
       LET fault == fm[1]
           msg == fm[2]
           req == updateOpts(path, fields)
           x == CallJSON(req, remote, fault, msg)
           c == closeBody(x)
       IN  Finish(req, x, c, Returned("update", path, <<>>, FALSE, fields, fault, x, c))

\* mkdir may follow a successful mkdir directly, so that mkRun sees both calls
mkdir ==
  /\ Idle \/ (ret.op = "mkdir" /\ mkRun.n = 1 /\ ~panicked)
  /\ \E dir \in InScope, fm \in FaultChoices :
       LET fault == fm[1]
           msg == fm[2]
           req == mkdirOpts(dir)
           x == CallJSON(req, remote, fault, msg)
           c == closeBody(x)
       IN  Finish(req, x, c, Returned("mkdir", dir, <<>>, FALSE, NoFields, fault, x, c))

rename ==
  /\ Idle
  /\ \E from \in InScope, to \in Relative, fm \in FaultChoices :
       LET fault == fm[1]
           msg == fm[2]
           req == renameOpts(pathPrefix, from, to)
           x == CallJSON(req, remote, fault, msg)
           c == closeBody(x)
       IN  Finish(req, x, c, Returned("rename", from, to, FALSE, NoFields, fault, x, c))

delete ==
  /\ Idle
  /\ \E path \in InScope, recursive \in BOOLEAN, fm \in FaultChoices :
       LET fault == fm[1]
           msg == fm[2]
           req == deleteOpts(path, recursive)
           x == CallJSON(req, remote, fault, msg)
           c == closeBody(x)
       IN  Finish(req, x, c, Returned("delete", path, <<>>, recursive, NoFields, fault, x, c))

userInfo ==
  /\ Idle
  /\ \E fm \in FaultChoices :
       LET fault == fm[1]
           msg == fm[2]
           req == userInfoOpts
           x == CallJSON(req, remote, fault, msg)
           c == closeBody(x)
       IN  Finish(req, x, c, Returned("userInfo", <<>>, <<>>, FALSE, NoFields, fault, x, c))

\* the caller hands the FilesystemPath it got from stat to pathToObject
PathToObject ==
  /\ ~panicked
  /\ ret.op = "stat"
  /\ strips < MaxStrips
  /\ LET r == pathToObject(fsp, pathPrefix)
     IN  /\ fsp' = r.fsp
         /\ obj' = r.obj
         /\ panicked' = r.panic
  /\ given' = fsp
  /\ strips' = strips + 1
  /\ UNCHANGED <<pathPrefix, remote, before, sent, ret, body, closes, rawFsp, conv, mkRun>>

\* the nodes a caller has at hand: those of the FilesystemPath of a stat and
\* the node put or update returned
NodesAtHand ==
  IF ret.err # NoError THEN {}
  ELSE IF ret.op = "stat"
       THEN { fsp.Path[i] : i \in 1..Len(fsp.Path) }
              \cup { fsp.Children[i] : i \in 1..Len(fsp.Children) }
  ELSE IF ret.op \in {"put", "update"} THEN {ret.node}
  ELSE {}

NodeToObject ==
  /\ ~panicked
  /\ \E node \in NodesAtHand :
       conv' = [fn |-> "nodeToObject", node |-> node,
                path |-> nodeToObject(node, pathPrefix).base.Path]
  /\ UNCHANGED <<pathPrefix, remote, before, sent, ret, body, closes, rawFsp, given, fsp,
                 obj, strips, mkRun, panicked>>

NodeToDirectory ==
  /\ ~panicked
  /\ \E node \in NodesAtHand :
       conv' = [fn |-> "nodeToDirectory", node |-> node,
                path |-> nodeToDirectory(node, pathPrefix).remote]
  /\ UNCHANGED <<pathPrefix, remote, before, sent, ret, body, closes, rawFsp, given, fsp,
                 obj, strips, mkRun, panicked>>

\* the caller lets go of what the last operation returned: the handle is
\* dropped and a stream that read handed out is closed by its owner
Drop ==
  /\ ~panicked
  /\ ret.op # "none"
  /\ before' = remote
  /\ sent' = <<>>
  /\ ret' = NoCall
  /\ body' = "none"
  /\ closes' = 0
  /\ rawFsp' = ZeroFsp
  /\ given' = ZeroFsp
  /\ fsp' = ZeroFsp
  /\ obj' = NoObject
  /\ strips' = 0
  /\ conv' = NoConv
  /\ mkRun' = NoRun
  /\ UNCHANGED <<pathPrefix, remote, panicked>>

Next ==
  \/ put
  \/ read
  \/ stat
  \/ update
  \/ mkdir
  \/ rename
  \/ delete
  \/ userInfo
  \/ PathToObject
  \/ NodeToObject
  \/ NodeToDirectory
  \/ Drop

Spec == Init /\ [][Next]_vars

----------------------------------------------------------------------------
(* Properties *)

Range(q) == { q[i] : i \in 1..Len(q) }

\* the table of section 4.1: remote code, semantic error kind
ErrorTable ==
  { <<"path_not_found", "NotFound">>,
    <<"directory_not_empty", "DirectoryNotEmpty">>,
    <<"node_already_exists", "AlreadyExists">>,
    <<"authentication_failed", "AuthenticationFailed">>,
    <<"permission_denied", "PermissionDenied">> }

\* C1: an error body that decodes to {value, message} is mapped by the table:
\* each of the five codes to its own kind and to no other, every other code to
\* an ApiError holding the received value and message
C1_ErrorMapping ==
  ret.errBody.decodes =>
    /\ \A row \in ErrorTable : ret.errBody.value = row[1] <=> ret.err.kind = row[2]
    /\ ret.errBody.value \notin { row[1] : row \in ErrorTable } =>
         ret.err = [kind |-> "ApiError", StatusCode |-> ret.errBody.value,
                    Message |-> ret.errBody.message]

C1_Witness ==
  /\ ret.errBody.decodes
  /\ ret.errBody.value = "internal_error"
  /\ ret.errBody.message = "second message"
  /\ ret.err.kind = "ApiError"

\* out is raw without the prefix p when raw starts with p, and raw otherwise
StrippedOf(raw, p, out) ==
  IF \E k \in 0..Len(raw) : SubSeq(raw, 1, k) = p
  THEN p \o out = raw
  ELSE out = raw

\* the node o is the node g with its path stripped and nothing else changed
StrippedNode(g, o) ==
  /\ StrippedOf(g.Path, pathPrefix, o.Path)
  /\ o.Type = g.Type
  /\ o.Name = g.Name

StrippedNodes(gs, os) ==
  /\ Len(os) = Len(gs)
  /\ \A i \in 1..Len(gs) : StrippedNode(gs[i], os[i])

\* C2: the handle pathToObject builds has as base the stripped path[base_index],
\* as path the given ancestor sequence and as children the given children
\* sequence, same length and order, each node stripped and otherwise unchanged
C2_HandleOfPath ==
  obj.set =>
    /\ given.BaseIndex + 1 \in 1..Len(given.Path)
    /\ StrippedNode(given.Path[given.BaseIndex + 1], obj.base)
    /\ StrippedNodes(given.Path, obj.path)
    /\ StrippedNodes(given.Children, obj.children)

C2_Witness ==
  /\ obj.set
  /\ strips = 1
  /\ Len(obj.children) = 2
  /\ obj.children[2].Path # given.Children[2].Path
  /\ obj.base.Path # given.Path[given.BaseIndex + 1].Path

NodesOf(f) == Range(f.Path) \cup Range(f.Children)

\* C3 as stated: after pathToObject no node of the handle has a path that
\* starts with the configured prefix
C3_NoNodeRetainsPrefix ==
  obj.set => \A n \in Range(obj.path) \cup Range(obj.children) :
               ~HasPrefix(n.Path, pathPrefix)

\* C3 amended: pathToObject removes one leading occurrence of the prefix.  A
\* node of the handle still starts with the prefix exactly when the given path
\* started with the prefix twice, and a further pathToObject call on the same
\* value changes nothing exactly when no given node starts with the prefix
C3_StripsOnce ==
  obj.set =>
    /\ \A i \in 1..Len(given.Path) :
         HasPrefix(obj.path[i].Path, pathPrefix)
           <=> HasPrefix(given.Path[i].Path, pathPrefix \o pathPrefix)
    /\ \A i \in 1..Len(given.Children) :
         HasPrefix(obj.children[i].Path, pathPrefix)
           <=> HasPrefix(given.Children[i].Path, pathPrefix \o pathPrefix)
    /\ (obj.path = given.Path /\ obj.children = given.Children)
         <=> \A n \in NodesOf(given) : ~HasPrefix(n.Path, pathPrefix)

C3_Witness ==
  /\ obj.set
  /\ strips = 2
  /\ \E i \in 1..Len(rawFsp.Children) :
       /\ HasPrefix(rawFsp.Children[i].Path, pathPrefix \o pathPrefix)
       /\ given.Children[i].Path = pathPrefix
       /\ obj.children[i].Path = <<>>

\* C4: pathToObject, nodeToObject and nodeToDirectory expose the same function
\* of (prefix, node path): P+X gives X, a path that does not start with P is
\* unchanged, whatever the node's type and whatever was converted before
C4_StripIsPure ==
  /\ conv.fn # "none" => StrippedOf(conv.node.Path, pathPrefix, conv.path)
  /\ obj.set =>
       /\ \A i \in 1..Len(given.Path) :
            StrippedOf(given.Path[i].Path, pathPrefix, obj.path[i].Path)
       /\ \A i \in 1..Len(given.Children) :
            StrippedOf(given.Children[i].Path, pathPrefix, obj.children[i].Path)
       /\ conv.fn # "none" =>
            \A i \in 1..Len(given.Path) :
              given.Path[i].Path = conv.node.Path => obj.path[i].Path = conv.path

C4_Witness ==
  /\ conv.fn = "nodeToDirectory"
  /\ conv.node.Path # <<>>
  /\ ~HasPrefix(conv.node.Path, pathPrefix)
  /\ conv.path = conv.node.Path

\* C5: every operation but read has closed the body it opened when it
\* returns; read closes it when it returns an error and hands it out, still
\* open, when it succeeds; no body is closed twice, none is closed that was
\* never there, and a missing response is never dereferenced
C5_BodiesClosed ==
  ret.op # "none" =>
    /\ ~ret.panic
    /\ closes <= 1
    /\ closes = 1 => ret.resp /\ ret.opened
    /\ (ret.op # "read" \/ ret.err # NoError) =>
         /\ ret.opened => body = "closed" /\ closes = 1
         /\ ~ret.stream
    /\ (ret.op = "read" /\ ret.err = NoError) =>
         /\ ret.stream
         /\ body = "open"
         /\ closes = 0
    /\ body = "open" => ret.op = "read" /\ ret.err = NoError

C5_Witness ==
  /\ ret.op = "read"
  /\ ret.err = errNotFound
  /\ ret.opened
  /\ body = "closed"
  /\ ~ret.stream

\* C6: rename sends one request: the path is the percent-escaped source as
\* passed in, the form holds action=rename and target = prefix + destination
C6_RenameRequest ==
  ret.op = "rename" =>
    /\ Len(sent) = 1
    /\ sent[1].Method = "POST"
    /\ DOMAIN sent[1].MultipartParams = {"action", "target"}
    /\ sent[1].MultipartParams["action"] = <<Str("rename")>>
    /\ sent[1].MultipartParams["target"] = <<pathPrefix \o ret.to>>
    /\ "/" \notin Range(sent[1].Path)
    /\ PathUnescape(sent[1].Path) = ret.path
    /\ DOMAIN sent[1].Parameters = {}

C6_Witness ==
  /\ ret.op = "rename"
  /\ ret.err = NoError
  /\ ret.to # <<>>
  /\ pathPrefix \o ret.to \in DOMAIN remote
  /\ ret.path \notin DOMAIN remote

\* the instant an RFC 3339 string with an optional fraction of up to nine
\* digits denotes
ParseRFC3339Nano(str) ==
  LET frac == IF str[4] = "." THEN SubSeq(str, 5, Len(str) - 1) ELSE <<>>
      RECURSIVE Nanos(_)
      Nanos(i) == IF i > Len(frac) THEN 0
                  ELSE DigitValue(frac[i]) * Pow10(9 - i) + Nanos(i + 1)
  IN  Time(10 * DigitValue(str[2]) + DigitValue(str[3]), Nanos(1))

\* C7: update sends action=update and, of the timestamp fields, exactly the
\* keys among created and modified that the mapping holds, each once, as the
\* RFC 3339 string that denotes its value to the nanosecond; nothing else
C7_UpdateFields ==
  ret.op = "update" =>
    LET params == sent[1].MultipartParams
    IN  /\ Len(sent) = 1
        /\ "action" \in DOMAIN params
        /\ params["action"] = <<Str("update")>>
        /\ DOMAIN params \ {"action"} = DOMAIN ret.fields \cap {"created", "modified"}
        /\ \A k \in DOMAIN params \ {"action"} :
             /\ Len(params[k]) = 1
             /\ params[k][1] # <<>>
             /\ params[k][1][1] = DatePart
             /\ params[k][1][Len(params[k][1])] = "Z"
             /\ ParseRFC3339Nano(params[k][1]) = ret.fields[k]

C7_Witness ==
  /\ ret.op = "update"
  /\ ret.err = NoError
  /\ DOMAIN ret.fields = {"modified"}
  /\ ret.fields["modified"].nsec # 0
  /\ DOMAIN sent[1].MultipartParams = {"action", "modified"}

\* C8: the service answers a delete without recursive on a non-empty
\* directory with DirectoryNotEmpty and keeps the tree, and a recursive delete
\* of it with no error, removing it and its descendants; the request carries
\* recursive=true exactly when recursive is requested and no such parameter
\* otherwise
C8_Delete ==
  ret.op = "delete" =>
    /\ Len(sent) = 1
    /\ "recursive" \in DOMAIN sent[1].Parameters <=> ret.recursive
    /\ ret.recursive => sent[1].Parameters["recursive"] = <<Str("true")>>
    /\ DOMAIN sent[1].Parameters \subseteq {"recursive"}
    /\ (ret.fault = "none" /\ ChildrenOf(before, ret.path) # {}) =>
         IF ret.recursive
         THEN /\ ret.err = NoError
              /\ DOMAIN remote = DOMAIN before \ { q \in DOMAIN before : HasPrefix(q, ret.path) }
              /\ \A q \in DOMAIN remote : remote[q] = before[q]
         ELSE /\ ret.err = ErrorDirectoryNotEmpty
              /\ remote = before

C8_Witness ==
  /\ ret.op = "delete"
  /\ ret.recursive
  /\ ret.err = NoError
  /\ ChildrenOf(before, ret.path) # {}
  /\ ret.path \notin DOMAIN remote

\* C9: a mkdir sends one request, action=mkdirall on the escaped path; a second
\* mkdir on the same directory right after a successful one returns no error
\* and leaves the tree as the first left it: the chain exists, as directories,
\* and nothing else was added or removed
C9_MkdirIdempotent ==
  /\ ret.op = "mkdir" =>
       /\ Len(sent) = 1
       /\ sent[1].Method = "POST"
       /\ sent[1].MultipartParams = ("action" :> <<Str("mkdirall")>>)
       /\ "/" \notin Range(sent[1].Path)
       /\ PathUnescape(sent[1].Path) = ret.path
  /\ (mkRun.n = 2 /\ ret.op = "mkdir") =>
       LET chain == { SubSeq(ret.path, 1, 2 * i) : i \in 1..Depth(ret.path) }
       IN  /\ ret.err = NoError
           /\ remote = mkRun.after
           /\ DOMAIN remote = DOMAIN mkRun.before \cup chain
           /\ \A q \in chain : remote[q] = "dir"
           /\ \A q \in DOMAIN mkRun.before : remote[q] = mkRun.before[q]

C9_Witness ==
  /\ mkRun.n = 2
  /\ ret.op = "mkdir"
  /\ Depth(ret.path) >= 2
  /\ \A i \in 1..Depth(ret.path) : SubSeq(ret.path, 1, 2 * i) \notin DOMAIN mkRun.before

\* C10 as stated: every FilesystemPath stat returns satisfies
\* 0 <= base_index < len(path)
C10_BaseIndexInRange ==
  ret.op = "stat" => rawFsp.BaseIndex >= 0 /\ rawFsp.BaseIndex < Len(rawFsp.Path)

\* C10 amended: a stat that returns no error returns a FilesystemPath with
\* 0 <= base_index < len(path), and pathToObject on it does not panic; a stat
\* that returns an error returns the zero FilesystemPath, whose path sequence
\* is empty and for which path[base_index] is not defined
C10_BaseIndexOfSuccess ==
  ret.op = "stat" =>
    /\ ret.err = NoError =>
         /\ rawFsp.BaseIndex >= 0
         /\ rawFsp.BaseIndex < Len(rawFsp.Path)
         /\ ~panicked
         /\ strips > 0 => obj.set
    /\ ret.err # NoError =>
         /\ rawFsp = ZeroFsp
         /\ strips > 0 => panicked /\ ~obj.set

C10_Witness ==
  /\ ret.op = "stat"
  /\ ret.err = NoError
  /\ rawFsp.BaseIndex = 1
  /\ Len(rawFsp.Path) = 2
  /\ obj.set

====
